---------------------------- MODULE Spec2Model ----------------------------
(***************************************************************************)
(* gemini-lite: the agentic tool-orchestration loop.                       *)
(*                                                                         *)
(*   - LiteTurn.run          (src/src/core/liteTurn.ts)                    *)
(*   - validatePathWithinWorkspace (src/src/validation.ts)                 *)
(*   - ReadFileTool, ListDirectoryTool, GlobTool, GrepTool, ToolRegistry   *)
(*   - LiteChat              (src/unnamed/part_000)                       *)
(*   - GeminiLite            (src/EXAMPLES.md)                             *)
(*   - LiteConfig.withOverrides, getToolRegistry (src/src/config.ts)       *)
(*                                                                         *)
(* Strings that the code inspects character by character (paths) are       *)
(* sequences of one-character strings; texts are sequences of tokens.      *)
(***************************************************************************)
EXTENDS Integers, Sequences, FiniteSets, TLC

VARIABLES
    \* ---- LiteTurn.run -------------------------------------------------
    pc,                 \* position of the generator: idle, opening, iter, done
    aborted,            \* signal.aborted
    events,             \* the events yielded so far, in order
    stream,             \* what the transport has delivered so far, in order
    sendCalls,          \* number of calls of ILiteChat.sendMessageStream
    pendingToolCalls,   \* LiteTurn.pendingToolCalls
    pendingCitations,   \* LiteTurn.pendingCitations
    finishReason,       \* LiteTurn.finishReason
    abortedAtRun,       \* signal.aborted at the moment run was invoked
    clock,              \* Date.now()
    \* ---- validatePathWithinWorkspace ------------------------------------
    filePath,           \* the candidate path handed to the validator
    workspaceDir,       \* the workspace root handed to the validator
    cwd,                \* process.cwd()
    verdict,            \* the validator's result, NoVerdict before the first call
    \* ---- tools and registry ---------------------------------------------
    tools,              \* ToolRegistry.tools: name -> tool
    lastCall,           \* the executeTool call just made, its outcome and what it read
    toolAborted,        \* signal.aborted of the signal handed to the tools
    lastAdded,          \* per name, the tool of the last addTool call a caller made
    \* ---- LiteChat and GeminiLite ----------------------------------------
    closed,             \* GeminiLite.closed
    chat,               \* GeminiLite.chat is not null
    chatsCreated,       \* number of LiteChat objects constructed
    history,            \* LiteChat.history
    requests,           \* the contents of every generateContentStream call, in order
    cleanups,           \* number of clearHistory calls made by close
    toolRuns,           \* number of executeTool calls made by analyze
    phase,              \* the analysis in flight: idle, opening, streaming
    timedOut,           \* abortController.signal.aborted of the analysis in flight
    analysis,           \* how the last analysis ended, NoAnalysis before
    lastOp,             \* the call just made on the session and its outcome
    received,           \* the events analyze has taken from the turn in flight
    responseText,       \* analyze: responseText
    usageMetadata,      \* analyze: usageMetadata
    analysisResult,     \* what the last analyze returned, NoResult before
    \* ---- concurrent callers of one GeminiLite ---------------------------
    analyses,           \* per caller: the analyze call it has in flight, if any
    toolRoots,          \* the workspace roots executeTool has run against so far
    lastExecution       \* the last executeTool call analyze made, and its outcome

turnVars == <<pc, aborted, events, stream, sendCalls, pendingToolCalls,
              pendingCitations, finishReason, abortedAtRun, clock>>
pathVars == <<filePath, workspaceDir, cwd, verdict>>
toolVars == <<tools, lastCall, toolAborted, lastAdded>>
resultVars == <<received, responseText, usageMetadata, analysisResult>>
sessionVars == <<closed, chat, chatsCreated, history, requests, cleanups, toolRuns,
                 phase, timedOut, analysis, lastOp, resultVars>>
callerVars == <<analyses, toolRoots, lastExecution>>
vars == <<turnVars, pathVars, toolVars, sessionVars, callerVars>>

-----------------------------------------------------------------------------
(* Generic helpers                                                         *)

Undefined == "undefined"

RECURSIVE Concat(_)
Concat(ss) == IF ss = <<>> THEN <<>> ELSE Head(ss) \o Concat(Tail(ss))

Range(s) == {s[i] : i \in DOMAIN s}

Take(s, n) == SubSeq(s, 1, IF Len(s) < n THEN Len(s) ELSE n)

SeqsUpTo(S, n) == UNION {[1..k -> S] : k \in 0..n}


-----------------------------------------------------------------------------
(* LiteTurn: inputs                                                        *)

MaxChunks == 2      \* stream items one run may pull
SummaryMax == 100   \* parseThought: text.substring(0, 100)

NoFinish == "none"  \* candidates[0].finishReason undefined
NoStatus == "none"  \* the thrown value has no numeric status
Null == [null |-> TRUE]   \* streamEvent.value is undefined

\* A content part: has it the key 'thought', and its text.
TextPart(t)    == [thought |-> FALSE, text |-> t]
ThoughtPart(t) == [thought |-> TRUE, text |-> t]

FnCall(n) == [name |-> n, args |-> "args"]

\* A citation source: its uri (or Undefined) and whether it has a title.
Cite(u, hasTitle) == [uri |-> u, title |-> hasTitle]

Response(parts, calls, cites, finish, usage) ==
    [null |-> FALSE, parts |-> parts, calls |-> calls, cites |-> cites,
     finishReason |-> finish, usageMetadata |-> usage]

RetryItem == [type |-> "retry"]
ChunkItem(resp) == [type |-> "chunk", value |-> resp]

HelloPart == TextPart(<<"Hello ">>)
WorldPart == TextPart(<<"world">>)
PlanPart  == ThoughtPart(<<"\n", "plan", "\n", "more">>)
Sources   == <<Cite("u2", FALSE), Cite("u1", TRUE), Cite(Undefined, FALSE)>>

\* The shapes of response a run is tried on: <<parts, function calls, citations>>.
ResponseShapes ==
    { <<<<>>, <<>>, <<>>>>,
      <<<<HelloPart>>, <<>>, <<>>>>,
      <<<<HelloPart, WorldPart>>, <<>>, <<>>>>,
      <<<<PlanPart>>, <<FnCall("grep")>>, Sources>>,
      <<<<PlanPart, HelloPart>>, <<>>, <<>>>>,
      <<<<HelloPart, PlanPart>>, <<>>, <<>>>>,
      <<<<HelloPart>>, <<FnCall("read_file")>>, <<>>>>,
      <<<<>>, <<FnCall("read_file"), FnCall(Undefined)>>, SubSeq(Sources, 1, 1)>>,
      <<<<>>, <<>>, Sources>> }
FinishDom == { <<NoFinish, Undefined>>, <<"STOP", "usage">> }

Responses ==
    { Response(sh[1], sh[2], sh[3], f[1], f[2]) : sh \in ResponseShapes, f \in FinishDom }

\* The values Math.random() is drawn from.
Rands == {"1f", "a3"}

\* What the transport can deliver on one pull.
TurnItems == {RetryItem, ChunkItem(Null)} \cup {ChunkItem(r) : r \in Responses}

\* What the transport can throw: InvalidStreamError, Error and an Error-like object
\* with a numeric status.
InvalidStreamError == [invalid |-> TRUE, message |-> "truncated", status |-> NoStatus]
PlainError == [invalid |-> FALSE, message |-> "boom", status |-> NoStatus]
StatusError == [invalid |-> FALSE, message |-> "quota", status |-> "429"]
Exceptions == {InvalidStreamError, PlainError, StatusError}

-----------------------------------------------------------------------------
(* LiteTurn: events                                                        *)

ContentEvent(text)   == [type |-> "content", value |-> text]
ThoughtEvent(th)     == [type |-> "thought", value |-> th]
ToolCallRequestEvent(req) == [type |-> "tool_call_request", value |-> req]
CitationEvent(srcs)  == [type |-> "citation", value |-> srcs]
FinishedEvent(reason, usage) ==
    [type |-> "finished", value |-> [reason |-> reason, usageMetadata |-> usage]]
ErrorEvent(msg, status) ==
    [type |-> "error", value |-> [message |-> msg, status |-> status]]
UserCancelledEvent == [type |-> "user_cancelled"]
RetryEvent         == [type |-> "retry"]
InvalidStreamEvent == [type |-> "invalid_stream"]

TerminalTypes == {"finished", "error", "user_cancelled", "invalid_stream"}

-----------------------------------------------------------------------------
(* LiteTurn: helpers                                                       *)

\* getResponseText: the texts of all parts that have a truthy text, concatenated;
\* null when there are no parts or the result is empty.
getResponseText(resp) ==
    Concat([i \in DOMAIN resp.parts |-> resp.parts[i].text])

\* parseThought: text.split('\n')
RECURSIVE SplitLines(_)
SplitLines(text) ==
    IF \A i \in DOMAIN text : text[i] # "\n" THEN <<text>>
    ELSE LET k == CHOOSE i \in DOMAIN text :
                     text[i] = "\n" /\ \A j \in 1..(i - 1) : text[j] # "\n"
         IN <<SubSeq(text, 1, k - 1)>> \o SplitLines(SubSeq(text, k + 1, Len(text)))

\* line.trim() is non-empty
NonBlank(line) == \E i \in DOMAIN line : line[i] \notin {" ", "\t"}

RECURSIVE NonBlankLines(_)
NonBlankLines(ls) ==
    IF ls = <<>> THEN <<>>
    ELSE IF NonBlank(Head(ls)) THEN <<Head(ls)>> \o NonBlankLines(Tail(ls))
         ELSE NonBlankLines(Tail(ls))

parseThought(text) ==
    LET lines == NonBlankLines(SplitLines(text))
    IN [text |-> text,
        summary |-> IF lines # <<>> THEN lines[1] ELSE Take(text, SummaryMax)]

\* getCitations: the sources with a uri; "(title) uri" when the source has a
\* title and a truthy uri.  A citation string is modelled as <<title?, uri>>.
RECURSIVE getCitations(_)
getCitations(srcs) ==
    IF srcs = <<>> THEN <<>>
    ELSE LET c == Head(srcs)
         IN IF c.uri = Undefined THEN getCitations(Tail(srcs))
            ELSE <<IF c.title THEN <<"(title)", c.uri>> ELSE <<c.uri>>>>
                 \o getCitations(Tail(srcs))

\* Array.prototype.sort on the citation strings: '(' sorts before letters,
\* uris compare as strings.
CiteKey(c) == IF Len(c) = 2 THEN <<0, c[2]>> ELSE <<1, c[1]>>
UriRank(u) == CASE u = "u1" -> 1 [] u = "u2" -> 2 [] OTHER -> 3
CiteLess(a, b) ==
    \/ CiteKey(a)[1] < CiteKey(b)[1]
    \/ CiteKey(a)[1] = CiteKey(b)[1] /\ UriRank(CiteKey(a)[2]) < UriRank(CiteKey(b)[2])

RECURSIVE SortCites(_)
SortCites(S) ==
    IF S = {} THEN <<>>
    ELSE LET m == CHOOSE x \in S : \A y \in S \ {x} : CiteLess(x, y)
         IN <<m>> \o SortCites(S \ {m})

\* handlePendingFunctionCall: the request built for one function call.
handlePendingFunctionCall(fnCall, now, rnd) ==
    [callId |-> <<fnCall.name, now, rnd>>,
     name |-> IF fnCall.name = Undefined THEN "undefined_tool_name" ELSE fnCall.name,
     args |-> fnCall.args,
     isClientInitiated |-> FALSE,
     prompt_id |-> "prompt"]

ToolRequests(calls, now, rnds) ==
    [i \in DOMAIN calls |-> handlePendingFunctionCall(calls[i], now, rnds[i])]


-----------------------------------------------------------------------------
(* LiteTurn.run                                                            *)

\* A slip: the check made after the retry handling, so only for chunks.
CancelledBeforeChunksOnly(item, isAborted) == isAborted /\ item.type # "retry"

\* The check at the top of the loop body: made for every stream event.
CancelledBeforeItem(item, isAborted) == isAborted

\* A slip: the invalid-stream test made before the cancellation test.
CatchEventInvalidFirst(isAborted, e) ==
    IF e.invalid THEN [type |-> "invalid_stream"]
    ELSE IF isAborted THEN [type |-> "user_cancelled"]
    ELSE [type |-> "error", value |-> [message |-> e.message, status |-> e.status]]

\* The catch block: the one event emitted for an exception e.
CatchEvent(isAborted, e) ==
    IF isAborted THEN UserCancelledEvent
    ELSE IF e.invalid THEN InvalidStreamEvent
    ELSE ErrorEvent(e.message, e.status)

\* The loop body for a response chunk, cancellation and retry already handled:
\* the events yielded and the turn state afterwards.
ProcessResponse(resp, ptcs, cits, fin, now, rnds) ==
    IF resp.null
    THEN [events |-> <<>>, ptcs |-> ptcs, cits |-> cits, fin |-> fin]
    ELSE IF resp.parts # <<>> /\ resp.parts[1].thought
    THEN [events |-> <<ThoughtEvent(parseThought(resp.parts[1].text))>>,
          ptcs |-> ptcs, cits |-> cits, fin |-> fin]
    ELSE
      LET text == getResponseText(resp)
          reqs == ToolRequests(resp.calls, now, rnds)
          cs   == cits \cup Range(getCitations(resp.cites))
          done == resp.finishReason # NoFinish
      IN [events |->
              (IF text # <<>> THEN <<ContentEvent(text)>> ELSE <<>>)
              \o [i \in DOMAIN reqs |-> ToolCallRequestEvent(reqs[i])]
              \o (IF done /\ cs # {} THEN <<CitationEvent(SortCites(cs))>> ELSE <<>>)
              \o (IF done THEN <<FinishedEvent(resp.finishReason, resp.usageMetadata)>>
                  ELSE <<>>),
          ptcs |-> ptcs \o reqs,
          cits |-> IF done THEN {} ELSE cs,
          fin  |-> IF done THEN resp.finishReason ELSE fin]

\* A slip: the retry marker starts the turn state afresh.
HandleRetryReset(ptcs, cits, fin) ==
    [events |-> <<RetryEvent>>, ptcs |-> <<>>, cits |-> {}, fin |-> NoFinish]

\* The loop body for a retry marker: yield Retry and continue.
HandleRetry(ptcs, cits, fin) ==
    [events |-> <<RetryEvent>>, ptcs |-> ptcs, cits |-> cits, fin |-> fin]

ThrowItem(e) == [type |-> "throw", error |-> e]
EndItem == [type |-> "end"]

\* The caller raises the cancellation signal.
Abort ==
    /\ pc # "done"
    /\ ~aborted
    /\ aborted' = TRUE
    /\ UNCHANGED <<pc, events, stream, sendCalls, pendingToolCalls,
                   pendingCitations, finishReason, abortedAtRun, clock>>
    /\ UNCHANGED <<pathVars, toolVars, sessionVars, callerVars>>

\* A slip: run sends the message a second time.
RunSendsTwice ==
    /\ pc = "idle"
    /\ pc' = "opening"
    /\ sendCalls' = sendCalls + 2
    /\ abortedAtRun' = aborted
    /\ UNCHANGED <<aborted, events, stream, pendingToolCalls, pendingCitations,
                   finishReason, clock>>
    /\ UNCHANGED <<pathVars, toolVars, sessionVars, callerVars>>

\* run is invoked and its first statement calls chat.sendMessageStream.
Run ==
    /\ pc = "idle"
    /\ pc' = "opening"
    /\ sendCalls' = sendCalls + 1
    /\ abortedAtRun' = aborted
    /\ UNCHANGED <<aborted, events, stream, pendingToolCalls, pendingCitations,
                   finishReason, clock>>
    /\ UNCHANGED <<pathVars, toolVars, sessionVars, callerVars>>

\* run is invoked again on the same LiteTurn, after the run before it has
\* returned, with a signal of its own; events and stream are those of the new
\* run.  run assigns none of the fields of the instance before its loop.
MaxRuns == 2
RunAgain ==
    /\ pc = "done"
    /\ sendCalls < MaxRuns
    /\ pc' = "opening"
    /\ sendCalls' = sendCalls + 1
    /\ aborted' = FALSE
    /\ abortedAtRun' = FALSE
    /\ events' = <<>>
    /\ stream' = <<>>
    /\ UNCHANGED <<pendingToolCalls, pendingCitations, finishReason, clock>>
    /\ UNCHANGED <<pathVars, toolVars, sessionVars, callerVars>>

\* sendMessageStream resolves with the response stream.
OpenReturns ==
    /\ pc = "opening"
    /\ pc' = "iter"
    /\ UNCHANGED <<aborted, events, stream, sendCalls, pendingToolCalls,
                   pendingCitations, finishReason, abortedAtRun, clock>>
    /\ UNCHANGED <<pathVars, toolVars, sessionVars, callerVars>>

\* An exception reaches the catch block, from sendMessageStream or from the
\* iteration of the stream.
Throws(e) ==
    /\ pc \in {"opening", "iter"}
    /\ stream' = Append(stream, ThrowItem(e))
    /\ events' = Append(events, CatchEvent(aborted, e))
    /\ pc' = "done"
    /\ UNCHANGED <<aborted, sendCalls, pendingToolCalls, pendingCitations,
                   finishReason, abortedAtRun, clock>>
    /\ UNCHANGED <<pathVars, toolVars, sessionVars, callerVars>>

\* A slip: no return after the UserCancelled event of the loop.
CancelledGoesOn == "iter"

\* The return that follows the UserCancelled event of the loop: the run is over.
CancelledReturns == "done"

\* The stream delivers one event and the loop body runs on it.
Deliver(item) ==
    /\ pc = "iter"
    /\ Len(stream) < MaxChunks
    /\ stream' = Append(stream, item)
    /\ IF CancelledBeforeItem(item, aborted)
       THEN /\ events' = Append(events, UserCancelledEvent)
            /\ pc' = CancelledReturns
            /\ UNCHANGED <<pendingToolCalls, pendingCitations, finishReason>>
       ELSE IF item.type = "retry"
       THEN LET r == HandleRetry(pendingToolCalls, pendingCitations, finishReason)
            IN /\ events' = events \o r.events
               /\ pendingToolCalls' = r.ptcs
               /\ pendingCitations' = r.cits
               /\ finishReason' = r.fin
               /\ UNCHANGED pc
       ELSE \E rnds \in [DOMAIN (IF item.value.null THEN <<>> ELSE item.value.calls)
                          -> Rands] :
              LET r == ProcessResponse(item.value, pendingToolCalls,
                                       pendingCitations, finishReason, clock, rnds)
              IN /\ events' = events \o r.events
                 /\ pendingToolCalls' = r.ptcs
                 /\ pendingCitations' = r.cits
                 /\ finishReason' = r.fin
                 /\ UNCHANGED pc
    /\ UNCHANGED <<aborted, sendCalls, abortedAtRun, clock>>
    /\ UNCHANGED <<pathVars, toolVars, sessionVars, callerVars>>

\* The stream is exhausted: the for-await loop ends and run returns.
StreamEnds ==
    /\ pc = "iter"
    /\ stream' = Append(stream, EndItem)
    /\ pc' = "done"
    /\ UNCHANGED <<aborted, events, sendCalls, pendingToolCalls, pendingCitations,
                   finishReason, abortedAtRun, clock>>
    /\ UNCHANGED <<pathVars, toolVars, sessionVars, callerVars>>

TurnInit ==
    /\ pc = "idle"
    /\ aborted = FALSE
    /\ events = <<>>
    /\ stream = <<>>
    /\ sendCalls = 0
    /\ pendingToolCalls = <<>>
    /\ pendingCitations = {}
    /\ finishReason = Undefined
    /\ abortedAtRun = FALSE
    /\ clock = 0


-----------------------------------------------------------------------------
(* node:path (POSIX) on strings given as sequences of characters           *)

Slash == "/"
Backslash == "\\"

\* s.split('/'), empty segments included
RECURSIVE SplitSlash(_)
SplitSlash(s) ==
    IF \A i \in DOMAIN s : s[i] # Slash THEN <<s>>
    ELSE LET k == CHOOSE i \in DOMAIN s :
                     s[i] = Slash /\ \A j \in 1..(i - 1) : s[j] # Slash
         IN <<SubSeq(s, 1, k - 1)>> \o SplitSlash(SubSeq(s, k + 1, Len(s)))

RECURSIVE DropEmpty(_)
DropEmpty(segs) ==
    IF segs = <<>> THEN <<>>
    ELSE IF Head(segs) = <<>> THEN DropEmpty(Tail(segs))
         ELSE <<Head(segs)>> \o DropEmpty(Tail(segs))

Segments(s) == DropEmpty(SplitSlash(s))

isAbsolute(s) == s # <<>> /\ s[1] = Slash

\* normalizeString of an absolute path: '.' is dropped, '..' removes the segment
\* before it and is dropped at the root.
RECURSIVE NormalizeSegs(_, _)
NormalizeSegs(segs, stack) ==
    IF segs = <<>> THEN stack
    ELSE LET h == Head(segs)
         IN IF h = <<".">> THEN NormalizeSegs(Tail(segs), stack)
            ELSE IF h = <<".", ".">>
            THEN NormalizeSegs(Tail(segs),
                               IF stack = <<>> THEN <<>>
                               ELSE SubSeq(stack, 1, Len(stack) - 1))
            ELSE NormalizeSegs(Tail(segs), Append(stack, h))

\* The path string of a list of segments: "/" for none.
ToPath(segs) ==
    IF segs = <<>> THEN <<Slash>>
    ELSE Concat([i \in DOMAIN segs |-> <<Slash>> \o segs[i]])

\* path.resolve(...paths) in a process whose working directory is dir: the
\* arguments from the last absolute one on, after dir when none is absolute.
RECURSIVE ResolveSegs(_, _)
ResolveSegs(paths, dir) ==
    IF paths = <<>> THEN Segments(dir)
    ELSE LET last == paths[Len(paths)]
             front == SubSeq(paths, 1, Len(paths) - 1)
         IN IF isAbsolute(last) THEN Segments(last)
            ELSE ResolveSegs(front, dir) \o Segments(last)

resolve(paths, dir) == ToPath(NormalizeSegs(ResolveSegs(paths, dir), <<>>))

\* s.replace(/\\/g, '/')
ReplaceBackslashes(s) == [i \in DOMAIN s |-> IF s[i] = Backslash THEN Slash ELSE s[i]]

\* s.startsWith(prefix)
startsWith(s, prefix) ==
    Len(s) >= Len(prefix) /\ SubSeq(s, 1, Len(prefix)) = prefix

-----------------------------------------------------------------------------
(* validatePathWithinWorkspace                                             *)

validatePathWithinWorkspace(path, workspace, dir) ==
    LET absoluteFilePath == resolve(<<path>>, dir)
        absoluteWorkspace == resolve(<<workspace>>, dir)
        normalizedFilePath == ReplaceBackslashes(absoluteFilePath)
        normalizedWorkspace == ReplaceBackslashes(absoluteWorkspace)
    IN IF /\ ~startsWith(normalizedFilePath, normalizedWorkspace \o <<Slash>>)
          /\ normalizedFilePath # normalizedWorkspace
       THEN [valid |-> FALSE, error |-> "File path must be within workspace directory"]
       ELSE [valid |-> TRUE, error |-> Undefined]

MaxPieces == 4      \* pieces a candidate path is put together from

PathPieces == { <<Slash>>, <<Backslash>>, <<".", ".">>, <<".">>,
                <<"r">>, <<"r", "x">>, <<"e">> }
Candidates == { Concat(ps) : ps \in SeqsUpTo(PathPieces, MaxPieces) }
Roots == { <<Slash>>, <<Slash, "r">>, <<Slash, "r", Slash, "e">>, <<"r">> }
Cwds == { <<Slash>>, <<Slash, "r">>, <<Slash, "e">> }

NoVerdict == [valid |-> FALSE, error |-> "not called"]

\* The call of the validator on the inputs.
Validate ==
    /\ verdict = NoVerdict
    /\ verdict' = validatePathWithinWorkspace(filePath, workspaceDir, cwd)
    /\ UNCHANGED <<filePath, workspaceDir, cwd>>
    /\ UNCHANGED <<turnVars, toolVars, sessionVars, callerVars>>

PathInit ==
    /\ cwd \in Cwds
    /\ filePath \in Candidates
    /\ workspaceDir \in Roots
    /\ verdict = NoVerdict

-----------------------------------------------------------------------------
(* The file system the tools run on, and the npm glob library              *)

NameR == <<"r">>
NameS == <<"s">>
NameA == <<"a">>
NameB == <<"b">>
NameE == <<"e">>
NameP == <<"p">>
NameH == <<".", "h">>

\* Directories and files, as lists of path segments.  /r is the workspace.
FsDirs  == { <<>>, <<NameR>>, <<NameR, NameS>>, <<NameE>> }
FsFiles == { <<NameR, NameA>>, <<NameR, NameH>>, <<NameR, NameS, NameB>>,
             <<NameE, NameP>> }

\* config.workspaceDir of the ToolConfig every tool is constructed with.
ToolWorkspace == <<Slash, "r">>

\* For each file, its lines: does the line match the searched regex.
FileLines(f) ==
    CASE f = <<NameR, NameA>> -> <<TRUE, FALSE, TRUE>>
      [] f = <<NameR, NameH>> -> <<FALSE>>
      [] f = <<NameR, NameS, NameB>> -> <<TRUE>>
      [] f = <<NameE, NameP>> -> <<TRUE, TRUE>>
      [] OTHER -> <<>>

IsPrefix(a, b) == Len(a) <= Len(b) /\ SubSeq(b, 1, Len(a)) = a

\* The segments of an absolute path string lie in or under the directory dir.
Under(dir, segs) == IsPrefix(dir, segs)

ChildrenOf(dir) ==
    {e \in FsDirs \cup FsFiles : Len(e) = Len(dir) + 1 /\ IsPrefix(dir, e)}

IsHidden(name) == name # <<>> /\ name[1] = "."

\* path.relative(from, to) of two absolute paths given as segments.
RECURSIVE CommonLen(_, _)
CommonLen(a, b) ==
    IF a = <<>> \/ b = <<>> \/ Head(a) # Head(b) THEN 0
    ELSE 1 + CommonLen(Tail(a), Tail(b))

JoinSegs(segs) ==
    IF segs = <<>> THEN <<>>
    ELSE segs[1] \o Concat([i \in 1..(Len(segs) - 1) |-> <<Slash>> \o segs[i + 1]])

relative(from, to) ==
    LET c == CommonLen(from, to)
    IN JoinSegs([i \in 1..(Len(from) - c) |-> <<".", ".">>]
                \o SubSeq(to, c + 1, Len(to)))

IsMagic(seg) == \E i \in DOMAIN seg : seg[i] = "*"

\* glob: the leading segments of a pattern that are plain names, '.' or '..'
\* fix the directory the walk starts from; the rest is matched.
RECURSIVE GlobWalkStart(_, _)
GlobWalkStart(segs, dir) ==
    IF segs = <<>> \/ IsMagic(Head(segs)) THEN [dir |-> dir, rest |-> segs]
    ELSE GlobWalkStart(Tail(segs), NormalizeSegs(<<Head(segs)>>, dir))

GlobStart(pattern, base) ==
    GlobWalkStart(Segments(pattern),
                  IF isAbsolute(pattern) THEN <<>> ELSE Segments(base))

\* No segment below dir on the way to e is a dot name (glob's dot: false).
NoDotBelow(dir, e) == \A i \in (Len(dir) + 1)..Len(e) : ~IsHidden(e[i])

\* glob(pattern, {cwd: base, nodir: true}): the files matched (as segments).
GlobFiles(pattern, base) ==
    LET st == GlobStart(pattern, base)
    IN IF st.rest = <<>> THEN {f \in FsFiles : f = st.dir}
       ELSE IF st.rest = << <<"*">> >>
       THEN {f \in FsFiles : Len(f) = Len(st.dir) + 1 /\ IsPrefix(st.dir, f)
                             /\ NoDotBelow(st.dir, f)}
       ELSE IF st.rest = << <<"*", "*">>, <<"*">> >>
       THEN {f \in FsFiles : Len(f) > Len(st.dir) /\ IsPrefix(st.dir, f)
                             /\ NoDotBelow(st.dir, f)}
       ELSE {}

\* The directories glob reads (readdir) while walking the pattern.
GlobReads(pattern, base) ==
    LET st == GlobStart(pattern, base)
    IN IF st.rest = <<>> THEN {}
       ELSE IF st.rest = << <<"*">> >> THEN {d \in FsDirs : d = st.dir}
       ELSE IF st.rest = << <<"*", "*">>, <<"*">> >>
       THEN {d \in FsDirs : IsPrefix(st.dir, d) /\ NoDotBelow(st.dir, d)}
       ELSE {d \in FsDirs : d = st.dir}

\* All orders in which a set of matches can be returned.
Orders(S) == {o \in [1..Cardinality(S) -> S] : Range(o) = S}

-----------------------------------------------------------------------------
(* Tool parameters and results                                             *)

\* A parameter that should be a string: a string, or anything else (absent, a
\* number, ...).
Str(chars) == [isString |-> TRUE, str |-> chars]
NotString  == [isString |-> FALSE, str |-> <<>>]

\* s.trim() is empty
IsBlank(chars) == \A i \in DOMAIN chars : chars[i] \in {" ", "\t"}

\* The parameters of a call; 0 stands for a number that is absent or not positive,
\* "" for an absent encoding.
NoParams ==
    [file_path |-> NotString, encoding |-> "", path |-> NotString,
     recursive |-> FALSE, showHidden |-> FALSE, maxDepth |-> 0,
     pattern |-> NotString, filePattern |-> NotString, maxResults |-> 0]

PathArgs ==
    { <<"a">>, <<"s", Slash, "b">>, <<"s">>, <<".">>, <<"z">>,
      <<".", ".", Slash, "e", Slash, "p">>, <<".", ".", Slash, "e">>,
      <<Slash, "e", Slash, "p">>, <<Slash, "r", Slash, "a">>,
      <<".", ".", Backslash, "e">> }

GlobPatterns ==
    { <<"*", "*", Slash, "*">>, <<"*">>, <<"s", Slash, "*">>, <<"a">>,
      <<".", ".", Slash, "*", "*", Slash, "*">>,
      <<".", ".", Slash, "e", Slash, "*">>,
      <<Slash, "e", Slash, "*">>, <<" ">> }

\* Regex sources: one that compiles, a blank one, one that does not compile.
GoodRegex == <<"T", "O", "D", "O">>
BadRegex  == <<"(">>

MaxResultsArg == 2   \* the largest maxResults a call passes

ReadFileParams ==
    { [NoParams EXCEPT !.file_path = f, !.encoding = e] :
        f \in {Str(x) : x \in PathArgs} \cup {NotString}, e \in {"", "base64", "bogus"} }
ListDirectoryParams ==
    { [NoParams EXCEPT !.path = f, !.recursive = r, !.showHidden = h, !.maxDepth = d] :
        f \in {Str(x) : x \in PathArgs} \cup {NotString},
        r \in BOOLEAN, h \in BOOLEAN, d \in {0, 1} }
GlobParams ==
    { [NoParams EXCEPT !.pattern = g, !.maxResults = m] :
        g \in {Str(x) : x \in GlobPatterns} \cup {NotString}, m \in 0..MaxResultsArg }
GrepParams ==
    { [NoParams EXCEPT !.pattern = g, !.filePattern = f, !.maxResults = m] :
        g \in {Str(GoodRegex), Str(BadRegex), Str(<<" ">>), NotString},
        f \in {Str(x) : x \in GlobPatterns} \cup {NotString},
        m \in 0..MaxResultsArg }

\* A ToolResult that execute returned: createSuccessResult / createErrorResult.
SuccessResult(meta) ==
    [outcome |-> "returned", success |-> TRUE, error |-> Undefined, meta |-> meta]
ErrorResult(message) ==
    [outcome |-> "returned", success |-> FALSE, error |-> message, meta |-> <<>>]
\* execute threw an error of the given class.
Threw(class, message) ==
    [outcome |-> "threw", success |-> FALSE, error |-> class, meta |-> message]

Done(result, reads) == [result |-> result, reads |-> reads]

-----------------------------------------------------------------------------
(* The tools                                                               *)

MaxDepthCap == 5        \* list_directory: Math.min(maxDepth, 5)
DefaultMaxDepth == 2    \* list_directory: default maxDepth
DefaultGlobMax == 100   \* glob: default maxResults
DefaultGrepMax == 50    \* grep: default maxResults

Encodings == {"utf-8", "ascii", "base64"}

\* ReadFileTool.execute
ReadFileExecute(params, isAborted) ==
    IF ~params.file_path.isString
    THEN Done(ErrorResult("file_path must be a string"), {})
    ELSE IF (IF params.encoding = "" THEN "utf-8" ELSE params.encoding) \notin Encodings
    THEN Done(ErrorResult("Invalid encoding"), {})
    ELSE
      LET absolutePath == resolve(<<ToolWorkspace, params.file_path.str>>, cwd)
          validation == validatePathWithinWorkspace(absolutePath, ToolWorkspace, cwd)
      IN IF ~validation.valid THEN Done(ErrorResult("FILE_OUTSIDE_WORKSPACE"), {})
         ELSE IF isAborted THEN Done(ErrorResult("Operation cancelled"), {})
         ELSE IF Segments(absolutePath) \in FsFiles
         THEN Done(SuccessResult(
                     [type |-> "file",
                      filePath |-> relative(Segments(ToolWorkspace),
                                            Segments(absolutePath))]),
                   {absolutePath})
         ELSE IF Segments(absolutePath) \in FsDirs
         THEN Done(ErrorResult("FILE_READ_ERROR"), {absolutePath})
         ELSE Done(ErrorResult("FILE_NOT_FOUND"), {absolutePath})

\* ListDirectoryTool.shouldIgnore
CommonIgnore == { <<"d", "i", "s", "t">>, <<".", "g", "i", "t">> }
shouldIgnore(name) == name \in CommonIgnore

\* The items of a listing loop that become entries.
Listed(dir, showHidden, isAborted) ==
    IF isAborted THEN {}
    ELSE {c \in ChildrenOf(dir) :
            /\ showHidden \/ ~IsHidden(c[Len(c)])
            /\ ~shouldIgnore(c[Len(c)])}

\* ListDirectoryTool.listSingle: readdir, then stat of every listed file.
listSingle(dir, showHidden, isAborted) ==
    LET kept == Listed(dir, showHidden, isAborted)
    IN [entries |-> kept,
        reads |-> {ToPath(dir)} \cup {ToPath(f) : f \in kept \cap FsFiles}]

\* ListDirectoryTool.listRecursive
RECURSIVE listRecursive(_, _, _, _, _)
listRecursive(dir, showHidden, maxDepth, currentDepth, isAborted) ==
    IF currentDepth >= maxDepth THEN [entries |-> {}, reads |-> {}]
    ELSE
      LET kept == Listed(dir, showHidden, isAborted)
          subs == {listRecursive(d, showHidden, maxDepth, currentDepth + 1, isAborted) :
                     d \in kept \cap FsDirs}
      IN [entries |-> kept \cup UNION {x.entries : x \in subs},
          reads |-> {ToPath(dir)} \cup {ToPath(f) : f \in kept \cap FsFiles}
                    \cup UNION {x.reads : x \in subs}]

\* ListDirectoryTool.execute
ListDirectoryExecute(params, isAborted) ==
    IF ~params.path.isString
    THEN Done(Threw("InvalidArgumentError", "path"), {})
    ELSE
      LET absolutePath == resolve(<<ToolWorkspace, params.path.str>>, cwd)
          validation == validatePathWithinWorkspace(absolutePath, ToolWorkspace, cwd)
          dir == Segments(absolutePath)
          maxDepth == IF params.maxDepth > 0
                      THEN (IF params.maxDepth < MaxDepthCap THEN params.maxDepth
                            ELSE MaxDepthCap)
                      ELSE DefaultMaxDepth
      IN IF ~validation.valid
         THEN Done(Threw("FileOutsideWorkspaceError", "FILE_OUTSIDE_WORKSPACE"), {})
         ELSE IF dir \notin FsDirs \cup FsFiles
         THEN Done(Threw("DirectoryListError", "Directory does not exist"),
                   {absolutePath})
         ELSE IF dir \notin FsDirs
         THEN Done(Threw("DirectoryListError", "Path is not a directory"),
                   {absolutePath})
         ELSE
           LET l == IF params.recursive
                    THEN listRecursive(dir, params.showHidden, maxDepth, 0, isAborted)
                    ELSE listSingle(dir, params.showHidden, isAborted)
           IN Done(SuccessResult([type |-> "directory",
                                  entryCount |-> Cardinality(l.entries),
                                  recursive |-> params.recursive,
                                  entries |-> l.entries]),
                   {absolutePath} \cup l.reads)

\* The glob pattern a call hands to the glob library.
GlobPatternOf(params) == IF params.pattern.isString THEN params.pattern.str ELSE <<>>
GrepFilePatternOf(params) ==
    IF params.filePattern.isString /\ ~IsBlank(params.filePattern.str)
    THEN params.filePattern.str
    ELSE <<"*", "*", Slash, "*">>

\* The file names glob returns for the files found: relative to the workspace.
RelativeNames(found) ==
    [i \in DOMAIN found |-> relative(Segments(ToolWorkspace), found[i])]

\* GlobTool.execute: truncated = matches.length > maxResults
GlobTruncated(found, maxResults) == found > maxResults

\* GlobTool.execute; found is what the glob library returned, in its order.
GlobExecute(params, found, globThrows) ==
    IF ~params.pattern.isString \/ IsBlank(params.pattern.str)
    THEN Done(Threw("InvalidArgumentError", "pattern"), {})
    ELSE
      LET maxResults == IF params.maxResults > 0 THEN params.maxResults
                        ELSE DefaultGlobMax
          reads == {ToPath(d) : d \in GlobReads(params.pattern.str, ToolWorkspace)}
          matches == RelativeNames(found)
          limitedMatches == Take(matches, maxResults)
      IN IF globThrows THEN Done(Threw("ToolExecutionError", "glob"), reads)
         ELSE Done(SuccessResult([type |-> "glob",
                                  matchCount |-> Len(matches),
                                  returnedCount |-> Len(limitedMatches),
                                  truncated |-> GlobTruncated(Len(matches), maxResults),
                                  matches |-> limitedMatches]),
                   reads)

\* The number of matching lines of a file.
RECURSIVE CountTrue(_)
CountTrue(bs) ==
    IF bs = <<>> THEN 0 ELSE (IF Head(bs) THEN 1 ELSE 0) + CountTrue(Tail(bs))

\* GrepTool.execute: the loop over the files glob returned.
RECURSIVE GrepScan(_, _, _, _)
GrepScan(files, maxResults, isAborted, acc) ==
    IF files = <<>> \/ isAborted \/ acc.matchCount >= maxResults THEN acc
    ELSE
      LET absolutePath == resolve(<<ToolWorkspace, Head(files)>>, cwd)
          hits == CountTrue(FileLines(Segments(absolutePath)))
          room == maxResults - acc.matchCount
          taken == IF hits < room THEN hits ELSE room
      IN GrepScan(Tail(files), maxResults, isAborted,
                  [matchCount |-> acc.matchCount + taken,
                   filesSearched |-> acc.filesSearched + 1,
                   filesWithMatches |-> acc.filesWithMatches + (IF taken > 0 THEN 1 ELSE 0),
                   reads |-> acc.reads \cup {absolutePath}])

\* A slip: the flag computed as glob computes it, from a count the loop caps.
GrepTruncatedStrict(matchCount, maxResults) == matchCount > maxResults

\* GrepTool.execute: truncated = matches.length >= maxResults
GrepTruncated(matchCount, maxResults) == matchCount >= maxResults

\* GrepTool.execute
GrepExecute(params, found, globThrows, isAborted) ==
    IF ~params.pattern.isString \/ IsBlank(params.pattern.str)
    THEN Done(Threw("InvalidArgumentError", "pattern"), {})
    ELSE IF params.pattern.str = BadRegex
    THEN Done(Threw("InvalidArgumentError", "valid regex pattern"), {})
    ELSE
      LET maxResults == IF params.maxResults > 0 THEN params.maxResults
                        ELSE DefaultGrepMax
          dirReads == {ToPath(d) : d \in GlobReads(GrepFilePatternOf(params), ToolWorkspace)}
          scan == GrepScan(RelativeNames(found), maxResults, isAborted,
                           [matchCount |-> 0, filesSearched |-> 0,
                            filesWithMatches |-> 0, reads |-> {}])
      IN IF globThrows THEN Done(Threw("ToolExecutionError", "grep"), dirReads)
         ELSE Done(SuccessResult([type |-> "grep",
                                  filesSearched |-> scan.filesSearched,
                                  filesWithMatches |-> scan.filesWithMatches,
                                  matchCount |-> scan.matchCount,
                                  truncated |-> GrepTruncated(scan.matchCount, maxResults)]),
                   dirReads \cup scan.reads)

-----------------------------------------------------------------------------
(* ToolRegistry                                                            *)

\* A slip: a fifth tool, one that writes, among the default tools.
DefaultToolsWithWrite ==
    [n \in {"read_file", "glob", "grep", "list_directory", "write_file"} |-> n]

\* registerDefaultTools: the four tools, each under its own name.
DefaultTools ==
    [n \in {"read_file", "glob", "grep", "list_directory"} |-> n]

\* Tools a caller may add later: a name and the implementation behind it.
AddableTools ==
    { [name |-> "grep", impl |-> "read_file"],
      [name |-> "search", impl |-> "grep"],
      [name |-> "search", impl |-> "glob"] }

\* Names a caller may ask executeTool for.
CallNames == {"read_file", "glob", "grep", "list_directory", "search", "write_file"}

AllParams == ReadFileParams \cup ListDirectoryParams \cup GlobParams \cup GrepParams

\* A call of executeTool: its arguments, the state of the signal it was handed,
\* and its outcome.
Call(name, tool, params, isAborted, done) ==
    [name |-> name, tool |-> tool, params |-> params, aborted |-> isAborted,
     result |-> done.result, reads |-> done.reads]

NoCall == Call("none", Undefined, NoParams, FALSE, Done(Threw("none", "none"), {}))

\* What the glob library can return for a pattern: the files matched, in any
\* order; with the signal raised, any part of them.
GlobReturns(pattern, isAborted) ==
    LET all == GlobFiles(pattern, ToolWorkspace)
    IN IF isAborted THEN UNION {Orders(sub) : sub \in SUBSET all} ELSE Orders(all)

\* ToolRegistry.getTool
getTool(name) == IF name \in DOMAIN tools THEN tools[name] ELSE Undefined

\* ToolRegistry.executeTool for a name that getTool does not find.
UnknownTool(name) == Done(Threw("Error", "Unknown tool"), {})

\* A slip: a name already registered keeps its tool.
addToolKeepFirst(registry, tool) == registry @@ (tool.name :> tool.impl)

\* ToolRegistry.addTool: this.tools.set(tool.name, tool)
addTool(registry, tool) == (tool.name :> tool.impl) @@ registry

\* The declaration a tool carries: tool.schema of its class.
SchemaOf(impl) == [name |-> impl]

\* Array.from(map.values()), in some order.
RECURSIVE Values(_)
Values(registry) ==
    IF DOMAIN registry = {} THEN <<>>
    ELSE LET n == CHOOSE k \in DOMAIN registry : TRUE
         IN <<registry[n]>> \o Values([k \in DOMAIN registry \ {n} |-> registry[k]])

\* ToolRegistry.toFunctionDeclarations
toFunctionDeclarations(registry) ==
    LET all == Values(registry) IN [i \in DOMAIN all |-> SchemaOf(all[i])]

\* ToolRegistry.addTool, called by a caller on the constructed registry.
AddTool(tool) ==
    /\ lastCall = NoCall
    /\ tools' = addTool(tools, tool)
    /\ lastAdded' = [n \in DOMAIN lastAdded \cup {tool.name} |->
                       IF n = tool.name THEN tool.impl ELSE lastAdded[n]]
    /\ UNCHANGED <<lastCall, toolAborted>>
    /\ UNCHANGED <<turnVars, pathVars, sessionVars, callerVars>>

\* ToolRegistry.executeTool(name, params, signal), tool.execute included.
ExecuteTool(name, params) ==
    /\ lastCall = NoCall
    /\ LET tool == getTool(name)
       IN IF tool = Undefined
          THEN lastCall' = Call(name, tool, params, toolAborted, UnknownTool(name))
          ELSE IF tool = "read_file"
          THEN lastCall' = Call(name, tool, params, toolAborted, ReadFileExecute(params, toolAborted))
          ELSE IF tool = "list_directory"
          THEN lastCall' = Call(name, tool, params, toolAborted, ListDirectoryExecute(params, toolAborted))
          ELSE IF tool = "glob"
          THEN \E found \in GlobReturns(GlobPatternOf(params), toolAborted),
                  globThrows \in {FALSE, toolAborted} :
                 lastCall' = Call(name, tool, params, toolAborted, GlobExecute(params, found, globThrows))
          ELSE \E found \in GlobReturns(GrepFilePatternOf(params), toolAborted),
                  globThrows \in {FALSE, toolAborted} :
                 lastCall' = Call(name, tool, params, toolAborted,
                                  GrepExecute(params, found, globThrows, toolAborted))
    /\ UNCHANGED <<tools, toolAborted, lastAdded>>
    /\ UNCHANGED <<turnVars, pathVars, sessionVars, callerVars>>

\* The caller takes the outcome of the call; the next call can be made.
TakeResult ==
    /\ lastCall # NoCall
    /\ lastCall' = NoCall
    /\ UNCHANGED <<tools, toolAborted, lastAdded>>
    /\ UNCHANGED <<turnVars, pathVars, sessionVars, callerVars>>

\* The caller raises the signal it hands to the tools.
AbortTools ==
    /\ ~toolAborted
    /\ toolAborted' = TRUE
    /\ UNCHANGED <<tools, lastCall, lastAdded>>
    /\ UNCHANGED <<turnVars, pathVars, sessionVars, callerVars>>

ToolsInit ==
    /\ tools = DefaultTools
    /\ lastAdded = <<>>
    /\ lastCall = NoCall
    /\ toolAborted = FALSE

-----------------------------------------------------------------------------
(* LiteChat                                                                *)

MaxHistory == 2     \* entries a caller adds with addToHistory
MaxSends == 1       \* provider calls of one session
MaxToolRuns == 1    \* tool calls the analyses of one session make

\* A text part and a history entry.
TextOf(t) == [text |-> t]
Entry(role, parts) == [role |-> role, parts |-> parts]

\* The message of a request: a string, or an array of strings and parts.
StringMessage(t) == [isArray |-> FALSE, str |-> t, items |-> <<>>]
StringItem(t) == [isString |-> TRUE, str |-> t, part |-> TextOf("")]
PartItem(part) == [isString |-> FALSE, str |-> "", part |-> part]
ArrayMessage(items) == [isArray |-> TRUE, str |-> "", items |-> items]

\* LiteChat.buildContents: a copy of the history with the message after it.
buildContents(hist, message) ==
    Append(hist,
           Entry("user",
                 IF message.isArray
                 THEN [i \in DOMAIN message.items |->
                         IF message.items[i].isString
                         THEN TextOf(message.items[i].str)
                         ELSE message.items[i].part]
                 ELSE <<TextOf(message.str)>>))

\* A slip: the entry put in front.
addToHistoryInFront(hist, role, parts) == <<Entry(role, parts)>> \o hist

\* LiteChat.addToHistory
addToHistory(hist, role, parts) == Append(hist, Entry(role, parts))

\* What generateContentStream, or the stream it returned, can throw: the kind of
\* failure, whether the value thrown is an Error, its message and its numeric
\* status, if it has one.
ProviderFailure(kind, isError, message, status) ==
    [kind |-> kind, isError |-> isError, message |-> message, status |-> status]
ProviderFailures ==
    { ProviderFailure("truncated", TRUE, <<"Stream ", "truncated">>, NoStatus),
      ProviderFailure("truncated", FALSE, <<"truncated">>, NoStatus),
      ProviderFailure("invalid", TRUE, <<"Failed to parse stream">>, NoStatus),
      ProviderFailure("network", TRUE, <<"fetch failed">>, NoStatus),
      ProviderFailure("quota", TRUE, <<"quota exceeded">>, "429") }

\* String.prototype.includes on a message
Includes(message, word) == word \in Range(message)

\* LiteChat.sendMessageStream, catch: what it throws when the call of
\* generateContentStream throws failure.
SendMessageStreamThrows(failure) ==
    [invalid |-> FALSE,
     message |-> <<"Chat stream failed: ">> \o failure.message,
     status |-> NoStatus]

\* LiteChat.convertToStreamEvents, catch: what it throws when the iteration of
\* the provider stream throws failure.
ConvertToStreamEventsThrows(failure) ==
    IF failure.isError /\ Includes(failure.message, "truncated")
    THEN InvalidStreamError
    ELSE [invalid |-> FALSE, message |-> failure.message, status |-> failure.status]

-----------------------------------------------------------------------------
(* GeminiLite                                                              *)

Methods == {"analyze", "reviewPullRequest", "explainCode", "analyzeCIFailure",
            "summarizeCodebase"}

\* The prompt a method builds, named after the method.
PromptOf(method) == StringMessage(method)

\* A slip: the guard never throws.
assertNotClosedNever(isClosed) == FALSE

\* GeminiLite.assertNotClosed: TRUE when it throws ClosedInstanceError.
assertNotClosed(isClosed) == isClosed

\* The validation of a method's arguments: TRUE when it throws ValidationError.
RejectsArguments(method, valid) == method # "summarizeCodebase" /\ ~valid

\* A slip: close sets the flag and leaves the chat where it is.
CloseEffectKeepsChat(isClosed, hasChat) ==
    [closed |-> TRUE, chat |-> hasChat, clear |-> FALSE]

\* A slip: close without the early return, the chat kept.
CloseEffectEveryTime(isClosed, hasChat) ==
    [closed |-> TRUE, chat |-> hasChat, clear |-> hasChat]

\* GeminiLite.close: the flag, whether the chat is still held, and whether
\* chat.clearHistory() is called.
CloseEffect(isClosed, hasChat) ==
    IF isClosed THEN [closed |-> TRUE, chat |-> hasChat, clear |-> FALSE]
    ELSE [closed |-> TRUE, chat |-> FALSE, clear |-> hasChat]

\* A call on the session and its outcome.
Op(op, outcome, detail) == [op |-> op, outcome |-> outcome, detail |-> detail]
NoOp == Op("none", "none", "none")

\* How an analysis ended: the provider failure (its kind and where it struck),
\* whether the signal was raised, the terminal event of the turn, the status an
\* Error event carries, and the outcome of analyze.
Analysis(kind, stage, cancelled, event, status, outcome) ==
    [failure |-> kind, stage |-> stage, cancelled |-> cancelled,
     event |-> event, status |-> status, outcome |-> outcome]
NoAnalysis == Analysis("none", "none", FALSE, "none", NoStatus, "none")

\* GeminiLite.analyze, the switch on the event type: what the terminal event
\* makes of the call.
AnalyzeOutcome(eventType) ==
    IF eventType = "error" THEN "Error"
    ELSE IF eventType = "user_cancelled" THEN "TimeoutError"
    ELSE "returned"

\* What analyze has made of the events so far.
Locals(text, usage) == [responseText |-> text, usageMetadata |-> usage]

\* A slip: the usage metadata of a Finished event is dropped.
OnEventDropsUsage(locals, event) ==
    IF event.type = "content"
    THEN Locals(locals.responseText \o event.value, locals.usageMetadata)
    ELSE locals

\* GeminiLite.analyze, the switch on the event type, for the events that do not
\* end the call: Content adds to responseText, Finished sets usageMetadata, the
\* other events change nothing.
OnEvent(locals, event) ==
    IF event.type = "content"
    THEN Locals(locals.responseText \o event.value, locals.usageMetadata)
    ELSE IF event.type = "finished"
    THEN Locals(locals.responseText, event.value.usageMetadata)
    ELSE locals

\* analyze takes the events one after the other.
RECURSIVE OnEvents(_, _)
OnEvents(locals, evs) ==
    IF evs = <<>> THEN locals
    ELSE OnEvents(OnEvent(locals, Head(evs)), Tail(evs))

\* metadata.tokensUsed of the result: usageMetadata?.totalTokenCount || 0.
ZeroTokens == "zero"
tokensUsed(usage) == IF usage = Undefined THEN ZeroTokens ELSE usage

\* The AnalysisResult analyze returns.
AnalysisResult(text, usage) == [response |-> text, tokensUsed |-> tokensUsed(usage)]
NoResult == [response |-> <<>>, tokensUsed |-> "none"]

\* A public method is called: analyze, or a preset method that ends in analyze.
CallMethod(method, valid) ==
    /\ lastOp = NoOp
    /\ IF assertNotClosed(closed)
       THEN /\ lastOp' = Op(method, "threw", "ClosedInstanceError")
            /\ UNCHANGED <<chat, chatsCreated, history, requests, phase, timedOut,
                           analysis, resultVars>>
       ELSE IF RejectsArguments(method, valid)
       THEN /\ lastOp' = Op(method, "threw", "ValidationError")
            /\ UNCHANGED <<chat, chatsCreated, history, requests, phase, timedOut,
                           analysis, resultVars>>
       ELSE /\ phase = "idle"
            /\ Len(requests) < MaxSends
            /\ chat' = TRUE
            /\ chatsCreated' = IF chat THEN chatsCreated ELSE chatsCreated + 1
            /\ requests' = Append(requests, buildContents(history, PromptOf(method)))
            /\ phase' = "opening"
            /\ timedOut' = FALSE
            /\ analysis' = NoAnalysis
            /\ received' = <<>>
            /\ responseText' = <<>>
            /\ usageMetadata' = Undefined
            /\ analysisResult' = NoResult
            /\ lastOp' = Op(method, "started", "none")
            /\ UNCHANGED history
    /\ UNCHANGED <<closed, cleanups, toolRuns>>
    /\ UNCHANGED <<turnVars, pathVars, toolVars, callerVars>>

\* No event: the generator of the turn is done.
NoEvent == [type |-> "none"]

\* The turn of the analysis in flight ends with the event; analyze settles.
AnalysisEnds(kind, stage, event) ==
    /\ analysis' = Analysis(kind, stage, timedOut, event.type,
                            IF event.type = "error" THEN event.value.status
                            ELSE NoStatus,
                            AnalyzeOutcome(event.type))
    /\ phase' = "idle"
    /\ received' = IF event = NoEvent THEN received ELSE Append(received, event)
    /\ LET locals == OnEvent(Locals(responseText, usageMetadata), event)
       IN /\ responseText' = locals.responseText
          /\ usageMetadata' = locals.usageMetadata
          /\ analysisResult' = IF AnalyzeOutcome(event.type) = "returned"
                               THEN AnalysisResult(locals.responseText, locals.usageMetadata)
                               ELSE NoResult
    /\ UNCHANGED <<closed, chat, chatsCreated, history, requests, cleanups, toolRuns,
                   timedOut, lastOp>>
    /\ UNCHANGED <<turnVars, pathVars, toolVars, callerVars>>

\* generateContentStream throws.
OpenFails(failure) ==
    /\ phase = "opening"
    /\ AnalysisEnds(failure.kind, "open",
                    CatchEvent(timedOut, SendMessageStreamThrows(failure)))

\* generateContentStream returns the stream.
OpenSucceeds ==
    /\ phase = "opening"
    /\ phase' = "streaming"
    /\ UNCHANGED <<closed, chat, chatsCreated, history, requests, cleanups, toolRuns,
                   timedOut, analysis, lastOp>>
    /\ UNCHANGED <<turnVars, pathVars, toolVars, callerVars, resultVars>>

\* The iteration of the provider stream throws.
IterationFails(failure) ==
    /\ phase = "streaming"
    /\ AnalysisEnds(failure.kind, "iterate",
                    CatchEvent(timedOut, ConvertToStreamEventsThrows(failure)))

\* The chunks the provider streams to an analysis: text alone, and text with a
\* finish reason and the usage metadata.
AnalyzeResponses ==
    { Response(<<HelloPart>>, <<>>, <<>>, NoFinish, Undefined),
      Response(<<WorldPart>>, <<>>, <<>>, "STOP", "usage") }

\* The events analyze takes from one analysis.
MaxReceived == 2

\* A chunk arrives (the signal not raised): the turn yields its events and
\* analyze takes them, one after the other.
ChunkArrives(resp) ==
    /\ phase = "streaming"
    /\ ~timedOut
    /\ Len(received) < MaxReceived
    /\ LET evs == ProcessResponse(resp, <<>>, {}, NoFinish, 0, <<>>).events
           locals == OnEvents(Locals(responseText, usageMetadata), evs)
       IN /\ received' = received \o evs
          /\ responseText' = locals.responseText
          /\ usageMetadata' = locals.usageMetadata
    /\ UNCHANGED <<closed, chat, chatsCreated, history, requests, cleanups, toolRuns,
                   phase, timedOut, analysis, lastOp, analysisResult>>
    /\ UNCHANGED <<turnVars, pathVars, toolVars, callerVars>>

\* A ToolCallRequest event arrives and analyze executes the tool.
ToolStep ==
    /\ phase = "streaming"
    /\ ~timedOut
    /\ toolRuns < MaxToolRuns
    /\ toolRuns' = toolRuns + 1
    /\ UNCHANGED <<closed, chat, chatsCreated, history, requests, cleanups, phase,
                   timedOut, analysis, lastOp>>
    /\ UNCHANGED <<turnVars, pathVars, toolVars, callerVars, resultVars>>

\* The timer of analyze fires: abortController.abort().
Timeout ==
    /\ phase # "idle"
    /\ ~timedOut
    /\ timedOut' = TRUE
    /\ UNCHANGED <<closed, chat, chatsCreated, history, requests, cleanups, toolRuns,
                   phase, analysis, lastOp>>
    /\ UNCHANGED <<turnVars, pathVars, toolVars, callerVars, resultVars>>

\* The next stream event arrives with the signal raised.
TurnCancelled ==
    /\ phase = "streaming"
    /\ timedOut
    /\ AnalysisEnds("none", "none", UserCancelledEvent)

\* The stream ends, after a chunk with a finish reason.
TurnFinishes ==
    /\ phase = "streaming"
    /\ ~timedOut
    /\ AnalysisEnds("none", "none", FinishedEvent("STOP", "usage"))

\* The stream ends without a further event: run returns without testing the
\* signal and the loop of analyze ends.
StreamRunsDry ==
    /\ phase = "streaming"
    /\ AnalysisEnds("none", "none", NoEvent)

\* GeminiLite.close
Close ==
    /\ lastOp = NoOp
    /\ LET effect == CloseEffect(closed, chat)
       IN /\ closed' = effect.closed
          /\ chat' = effect.chat
          /\ history' = IF effect.clear THEN <<>> ELSE history
          /\ cleanups' = IF effect.clear THEN cleanups + 1 ELSE cleanups
    /\ lastOp' = Op("close", "returned", IF closed THEN "already closed" ELSE "closed")
    /\ UNCHANGED <<chatsCreated, requests, toolRuns, phase, timedOut, analysis>>
    /\ UNCHANGED <<turnVars, pathVars, toolVars, callerVars, resultVars>>

\* LiteChat.addToHistory, called on the chat of the session.
AddToHistory(role, parts) ==
    /\ lastOp = NoOp
    /\ chat
    /\ Len(history) < MaxHistory
    /\ history' = addToHistory(history, role, parts)
    /\ lastOp' = Op("addToHistory", "returned", "none")
    /\ UNCHANGED <<closed, chat, chatsCreated, requests, cleanups, toolRuns, phase,
                   timedOut, analysis>>
    /\ UNCHANGED <<turnVars, pathVars, toolVars, callerVars, resultVars>>

\* LiteChat.clearHistory, called on the chat of the session.
ClearHistory ==
    /\ lastOp = NoOp
    /\ chat
    /\ history' = <<>>
    /\ lastOp' = Op("clearHistory", "returned", "none")
    /\ UNCHANGED <<closed, chat, chatsCreated, requests, cleanups, toolRuns, phase,
                   timedOut, analysis>>
    /\ UNCHANGED <<turnVars, pathVars, toolVars, callerVars, resultVars>>

\* The caller takes the outcome of the call; the next call can be made.
TakeOutcome ==
    /\ lastOp # NoOp
    /\ lastOp' = NoOp
    /\ UNCHANGED <<closed, chat, chatsCreated, history, requests, cleanups, toolRuns,
                   phase, timedOut, analysis>>
    /\ UNCHANGED <<turnVars, pathVars, toolVars, callerVars, resultVars>>

\* What a caller adds to the history.
AddedEntries == { <<"model", <<TextOf("answer")>>>>, <<"user", <<TextOf("more")>>>> }

SessionInit ==
    /\ closed = FALSE
    /\ chat = FALSE
    /\ chatsCreated = 0
    /\ history = <<>>
    /\ requests = <<>>
    /\ cleanups = 0
    /\ toolRuns = 0
    /\ phase = "idle"
    /\ timedOut = FALSE
    /\ analysis = NoAnalysis
    /\ lastOp = NoOp
    /\ received = <<>>
    /\ responseText = <<>>
    /\ usageMetadata = Undefined
    /\ analysisResult = NoResult

-----------------------------------------------------------------------------
(* GeminiLite under several callers                                        *)

MaxCallers == 2
Callers == 1..MaxCallers

\* The LiteConfig the session was created with.
SessionConfig == [workspaceDir |-> ToolWorkspace]

\* request.overrides: left out, or a Partial<LiteConfigInput>; a workspaceDir of
\* <<>> is one that is left out or empty.
NoOverrides == [given |-> FALSE, workspaceDir |-> <<>>]
Overrides(dir) == [given |-> TRUE, workspaceDir |-> dir]
OverrideDirs == { <<>>, <<Slash, "e">>, <<Slash, "x">> }
AllOverrides == {NoOverrides} \cup {Overrides(dir) : dir \in OverrideDirs}

\* validateWorkspaceDir: TRUE when it returns an error.
validateWorkspaceDir(dir) == dir = <<>> \/ Segments(dir) \notin FsDirs

\* LiteConfig.withOverrides, the merge.
withOverrides(config, overrides) ==
    [workspaceDir |-> IF overrides.workspaceDir # <<>> THEN overrides.workspaceDir
                      ELSE config.workspaceDir]

\* GeminiLite.analyze: effectiveConfig
EffectiveConfig(config, overrides) ==
    IF overrides.given THEN withOverrides(config, overrides) ELSE config

\* LiteConfig.getToolRegistry: the ToolConfig the registry and its tools get.
getToolRegistry(config) == [workspaceDir |-> config.workspaceDir]

\* The analyze call of a caller: where it stands, the method that made it, the
\* root of the registry its tools run against, and the tools it has run.
InFlight(stage, method, root, runs) ==
    [stage |-> stage, method |-> method, root |-> root, runs |-> runs]
IdleCall == InFlight("idle", "none", <<>>, 0)

\* A caller analyses analyze, or a preset method that ends in analyze, with valid
\* arguments: up to the first await, the call of sendMessageStream by
\* LiteTurn.run included.
AnalyzeStarts(c, method, overrides) ==
    /\ analyses[c] = IdleCall
    /\ ~assertNotClosed(closed)
    /\ method # "analyze" => ~overrides.given
    /\ chat' = TRUE
    /\ chatsCreated' = IF chat THEN chatsCreated ELSE chatsCreated + 1
    /\ LET config == EffectiveConfig(SessionConfig, overrides)
       IN IF validateWorkspaceDir(config.workspaceDir)
          THEN UNCHANGED analyses
          ELSE analyses' = [analyses EXCEPT ![c] =
                           InFlight("opening", method,
                                    getToolRegistry(config).workspaceDir, 0)]
    /\ UNCHANGED <<closed, history, requests, cleanups, toolRuns, phase, timedOut,
                   analysis, lastOp, toolRoots, lastExecution>>
    /\ UNCHANGED <<turnVars, pathVars, toolVars, resultVars>>

\* sendMessageStream returns the stream to the turn of the caller.
AnalyzeOpens(c) ==
    /\ analyses[c].stage = "opening"
    /\ analyses' = [analyses EXCEPT ![c].stage = "streaming"]
    /\ UNCHANGED <<toolRoots, lastExecution>>
    /\ UNCHANGED <<turnVars, pathVars, toolVars, sessionVars>>

\* The tool names a ToolCallRequest event can carry: a registered one, and
\* the name handlePendingFunctionCall gives a call without a name.
RequestedNames == {"read_file", "undefined_tool_name"}

\* An executeTool call made by analyze: the request it was made for and how it
\* ended (a ToolResult returned, or an error thrown and turned into a warning).
Execution(c, name, outcome) == [caller |-> c, name |-> name, outcome |-> outcome]
NoExecution == Execution(0, "none", "none")

\* executeTool on a registry that holds the default tools.
ExecuteOutcome(name) ==
    IF name \in DOMAIN DefaultTools THEN "returned"
    ELSE UnknownTool(name).result.outcome

\* A ToolCallRequest event reaches the loop of the caller's analyze, which runs
\* the tool on the registry of its effective configuration and awaits it.
AnalyzeExecutesTool(c, name) ==
    /\ analyses[c].stage = "streaming"
    /\ analyses[c].runs < MaxToolRuns
    /\ analyses' = [analyses EXCEPT ![c].runs = @ + 1]
    /\ toolRoots' = toolRoots \cup {analyses[c].root}
    /\ lastExecution' = Execution(c, name, ExecuteOutcome(name))
    /\ UNCHANGED <<turnVars, pathVars, toolVars, sessionVars>>

\* The turn of the caller ends and its analyze settles.
AnalyzeSettles(c) ==
    /\ analyses[c].stage # "idle"
    /\ analyses' = [analyses EXCEPT ![c] = IdleCall]
    /\ UNCHANGED <<toolRoots, lastExecution>>
    /\ UNCHANGED <<turnVars, pathVars, toolVars, sessionVars>>

\* The runs of LiteTurn in flight against the chat of the session.
RunsInFlight == Cardinality({c \in Callers : analyses[c].stage # "idle"})

CallersInit ==
    /\ analyses = [c \in Callers |-> IdleCall]
    /\ toolRoots = {}
    /\ lastExecution = NoExecution

-----------------------------------------------------------------------------
(* Specifications                                                          *)

ToolsParked ==
    /\ tools = <<>>
    /\ lastAdded = <<>>
    /\ lastCall = NoCall
    /\ toolAborted = FALSE

PathParked ==
    /\ cwd = <<Slash>>
    /\ filePath = <<>>
    /\ workspaceDir = <<Slash>>
    /\ verdict = NoVerdict

\* One run of LiteTurn over an arbitrary transport.
InitTurn == TurnInit /\ PathParked /\ ToolsParked /\ SessionInit /\ CallersInit
NextTurn ==
    \/ Abort
    \/ Run
    \/ OpenReturns
    \/ \E e \in Exceptions : Throws(e)
    \/ \E item \in TurnItems : Deliver(item)
    \/ StreamEnds
SpecTurn == InitTurn /\ [][NextTurn]_vars

\* Several runs, one after the other, on one LiteTurn.
NextRuns == NextTurn \/ RunAgain
SpecRuns == InitTurn /\ [][NextRuns]_vars

\* Calls of the path validator.
InitPath == PathInit /\ TurnInit /\ ToolsParked /\ SessionInit /\ CallersInit
NextPath == Validate
SpecPath == InitPath /\ [][NextPath]_vars


\* Calls of the registry and of the tools behind it.
InitTools == ToolsInit /\ TurnInit /\ PathParked /\ SessionInit /\ CallersInit
NextTools ==
    \/ \E tool \in AddableTools : AddTool(tool)
    \/ \E name \in CallNames, params \in AllParams : ExecuteTool(name, params)
    \/ TakeResult
    \/ AbortTools
SpecTools == InitTools /\ [][NextTools]_vars

\* A session: the calls on one GeminiLite instance and on its chat.
InitSession == SessionInit /\ TurnInit /\ PathParked /\ ToolsParked /\ CallersInit
NextSession ==
    \/ \E method \in Methods, valid \in BOOLEAN : CallMethod(method, valid)
    \/ \E failure \in ProviderFailures : OpenFails(failure)
    \/ OpenSucceeds
    \/ \E failure \in ProviderFailures : IterationFails(failure)
    \/ ToolStep
    \/ Timeout
    \/ TurnCancelled
    \/ TurnFinishes
    \/ StreamRunsDry
    \/ Close
    \/ \E e \in AddedEntries : AddToHistory(e[1], e[2])
    \/ ClearHistory
    \/ TakeOutcome
SpecSession == InitSession /\ [][NextSession]_vars

\* One analysis after the other on an open session, chunk by chunk.
NextAnalyze ==
    \/ \E method \in Methods, valid \in BOOLEAN : CallMethod(method, valid)
    \/ \E failure \in ProviderFailures : OpenFails(failure)
    \/ OpenSucceeds
    \/ \E resp \in AnalyzeResponses : ChunkArrives(resp)
    \/ \E failure \in ProviderFailures : IterationFails(failure)
    \/ Timeout
    \/ TurnCancelled
    \/ StreamRunsDry
    \/ TakeOutcome
SpecAnalyze == InitSession /\ [][NextAnalyze]_vars

\* Several callers of one open GeminiLite, none awaiting the others.
InitCallers == CallersInit /\ SessionInit /\ TurnInit /\ PathParked /\ ToolsParked
NextCallers ==
    \/ \E c \in Callers, method \in Methods, overrides \in AllOverrides :
          AnalyzeStarts(c, method, overrides)
    \/ \E c \in Callers : AnalyzeOpens(c)
    \/ \E c \in Callers, name \in RequestedNames : AnalyzeExecutesTool(c, name)
    \/ \E c \in Callers : AnalyzeSettles(c)
SpecCallers == InitCallers /\ [][NextCallers]_vars


-----------------------------------------------------------------------------
(* Properties of LiteTurn.run (SpecTurn)                                   *)

IsTerminal(ev) == ev.type \in TerminalTypes
TerminalCount == Cardinality({i \in DOMAIN events : IsTerminal(events[i])})
EndsInOneTerminal ==
    /\ events # <<>>
    /\ IsTerminal(events[Len(events)])
    /\ TerminalCount = 1

CarriesFinish(item) ==
    /\ item.type = "chunk"
    /\ ~item.value.null
    /\ item.value.finishReason # NoFinish

\* The run has returned after the stream ended by itself, its last chunk carrying
\* a finish reason, with the signal never raised.
EndedOnFinishChunk ==
    /\ pc = "done"
    /\ ~aborted
    /\ Len(stream) >= 2
    /\ stream[Len(stream)] = EndItem
    /\ CarriesFinish(stream[Len(stream) - 1])

\* C1: for every chunk sequence whose last chunk carries a finish reason (no
\* cancellation, no transport exception), run emits exactly one terminal event,
\* and it is the last event of the run.
C1_OneTerminalAfterFinishChunk == EndedOnFinishChunk => EndsInOneTerminal

\* C2: every run that completes, also one whose stream is exhausted without a
\* finish reason, has produced exactly one terminal event, as its final event.
C2_EveryRunEndsInTerminal == pc = "done" => EndsInOneTerminal

IsStreamEvent(item) == item.type \in {"retry", "chunk"}

\* C3: when the signal is raised before a stream event (chunk or retry marker) is
\* processed, that event yields UserCancelled and nothing else and ends the run,
\* and a run that has ended yields nothing more and pulls nothing more.
C3_CancelledBeforeEveryItem ==
    /\ [][ ( /\ pc = "iter"
             /\ aborted
             /\ Len(stream') = Len(stream) + 1
             /\ IsStreamEvent(stream'[Len(stream')]) )
           => ( /\ events' = Append(events, UserCancelledEvent)
                /\ pc' = "done"
                /\ pendingToolCalls' = pendingToolCalls ) ]_vars
    /\ [][ pc = "done" => (pc' = "done" /\ events' = events /\ stream' = stream) ]_vars

\* C3 witness: the second stream event is a chunk with text and a finish reason,
\* the signal was raised before it, and it produced only UserCancelled.
C3_Witness ==
    /\ pc = "done"
    /\ Len(stream) = 2
    /\ CarriesFinish(stream[2])
    /\ stream[2].value.parts # <<>>
    /\ Len(events) >= 2
    /\ events[Len(events)] = UserCancelledEvent
    /\ \A i \in 1..(Len(events) - 1) : ~IsTerminal(events[i])

\* C4: with the signal already raised when run is invoked, run yields exactly one
\* event, UserCancelled, and sendMessageStream is never called.
C4_AbortedBeforeRun ==
    (pc = "done" /\ abortedAtRun) => (events = <<UserCancelledEvent>> /\ sendCalls = 0)

\* C5: an exception escaping the transport call or the iteration yields exactly
\* one event: UserCancelled if the signal is raised, else InvalidStream for an
\* InvalidStreamError, else Error with the exception's message; the run ends
\* there and consumes nothing more.
C5_CatchPrecedence ==
    /\ [][ \A e \in Exceptions :
             stream' = Append(stream, ThrowItem(e))
             => /\ pc' = "done"
                /\ Len(events') = Len(events) + 1
                /\ SubSeq(events', 1, Len(events)) = events
                /\ LET ev == events'[Len(events')]
                   IN IF aborted THEN ev.type = "user_cancelled"
                      ELSE IF e = InvalidStreamError THEN ev.type = "invalid_stream"
                      ELSE /\ ev.type = "error"
                           /\ ev.value.message = e.message ]_vars
    /\ [][ pc = "done" => UNCHANGED <<pc, events, stream>> ]_vars

\* C5 witness: an InvalidStreamError thrown during the iteration with the signal
\* raised, after a chunk that yielded events: the run ended with UserCancelled.
C5_Witness ==
    /\ pc = "done"
    /\ aborted
    /\ Len(stream) >= 2
    /\ stream[Len(stream)] = ThrowItem(InvalidStreamError)
    /\ Len(events) >= 2
    /\ events[Len(events)] = UserCancelledEvent

\* The step processes a response chunk (the signal not raised).
ChunkProcessed ==
    /\ Len(stream') = Len(stream) + 1
    /\ stream'[Len(stream')].type = "chunk"
    /\ ~stream'[Len(stream')].value.null
    /\ ~aborted

\* The events a step adds.
NewEvents == SubSeq(events', Len(events) + 1, Len(events'))

IsToolCallRequest(ev) == ev.type = "tool_call_request"

\* The place of an event type in the order of one chunk's events.
TypeRank(type) ==
    CASE type = "content" -> 1
      [] type = "tool_call_request" -> 2
      [] type = "citation" -> 3
      [] type = "finished" -> 4
      [] OTHER -> 0

\* C15: a chunk with several function invocations yields one ToolCallRequest
\* per invocation, in the order listed, each with a distinct call identifier;
\* a chunk's events come in the order Content, ToolCallRequest(s), Citation,
\* Finished, after the events of the chunks before it.
C15_ToolCallsInOrder ==
    [][ ChunkProcessed =>
          LET calls == stream'[Len(stream')].value.calls
              reqs  == SelectSeq(NewEvents, IsToolCallRequest)
          IN /\ SubSeq(events', 1, Len(events)) = events
             /\ Len(reqs) = Len(calls)
             /\ \A i \in DOMAIN reqs :
                   reqs[i].value.name =
                     (IF calls[i].name = Undefined THEN "undefined_tool_name"
                      ELSE calls[i].name)
             /\ \A i, j \in DOMAIN reqs :
                   i # j => reqs[i].value.callId # reqs[j].value.callId
             /\ \A i, j \in DOMAIN NewEvents :
                   i < j => TypeRank(NewEvents[i].type) <= TypeRank(NewEvents[j].type)
      ]_vars

\* A Finished event has been emitted.
HasFinished == \E i \in DOMAIN events : events[i].type = "finished"

\* The step pulls a stream event (a chunk or a retry marker) from the transport.
PullsStreamEvent ==
    /\ Len(stream') = Len(stream) + 1
    /\ IsStreamEvent(stream'[Len(stream')])

\* C26: Finished is terminal: once run has emitted a Finished event it emits no
\* further event and pulls no further chunk, whatever the stream still holds.
C26_FinishedIsTerminal ==
    [][ HasFinished => (events' = events /\ ~PullsStreamEvent) ]_vars

\* C27: every chunk processed with the signal not raised that carries a finish
\* reason yields a Finished event with that finish reason and the usage
\* metadata of the chunk, whatever else the chunk carries.
C27_FinishChunkYieldsFinished ==
    [][ (ChunkProcessed /\ CarriesFinish(stream'[Len(stream')]))
        => LET resp == stream'[Len(stream')].value
           IN \E i \in DOMAIN NewEvents :
                 NewEvents[i] = FinishedEvent(resp.finishReason, resp.usageMetadata)
      ]_vars

CitationIndexes == {i \in DOMAIN events : events[i].type = "citation"}

\* C28: the citation sources are emitted at most once per turn, as one Citation
\* event that lists them without duplicates in lexicographic order and comes
\* immediately before the Finished event; the set is empty after the flush, and
\* there is no Citation event when no source was collected.
C28_CitationsFlushedOnce ==
    /\ Cardinality(CitationIndexes) <= 1
    /\ \A i \in CitationIndexes :
          /\ events[i].value # <<>>
          /\ \A j, k \in DOMAIN events[i].value :
                j < k => CiteLess(events[i].value[j], events[i].value[k])
          /\ i < Len(events)
          /\ events[i + 1].type = "finished"
    /\ (events # <<>> /\ events[Len(events)].type = "finished") => pendingCitations = {}

ToolCallIndexes == {i \in DOMAIN events : IsToolCallRequest(events[i])}

\* C29: no two ToolCallRequest events carry the same callId, within a chunk or
\* across chunks, calls of one tool made in the same millisecond included.
C29_CallIdsNeverCollide ==
    \A i, j \in ToolCallIndexes :
       i # j => events[i].value.callId # events[j].value.callId

IsContent(ev) == ev.type = "content"

\* The normal text of a chunk: the texts of its parts that are not reasoning
\* content, concatenated in order.
RECURSIVE NormalText(_)
NormalText(parts) ==
    IF parts = <<>> THEN <<>>
    ELSE (IF Head(parts).thought THEN <<>> ELSE Head(parts).text)
         \o NormalText(Tail(parts))

\* C30: a chunk with normal text parts yields exactly one Content event, whose
\* value is the concatenation of those parts in order; a chunk without text
\* yields no Content event; the events of a chunk are delivered before the next
\* chunk is pulled.
C30_OneContentPerTextChunk ==
    [][ ChunkProcessed =>
          LET text == NormalText(stream'[Len(stream')].value.parts)
              contents == SelectSeq(NewEvents, IsContent)
          IN /\ SubSeq(events', 1, Len(events)) = events
             /\ contents = (IF text # <<>> THEN <<ContentEvent(text)>> ELSE <<>>)
      ]_vars

\* The text t occurs in the text s.
ContainsText(s, t) ==
    \E i \in 0..(Len(s) - Len(t)) : SubSeq(s, i + 1, i + Len(t)) = t

\* C31: a chunk carrying reasoning content yields a Thought event with the full
\* reasoning text, and that text is never also emitted as a Content event,
\* wherever the reasoning part sits among the parts of the chunk.
C31_ThoughtNeverAsContent ==
    [][ ChunkProcessed =>
          LET parts == stream'[Len(stream')].value.parts
          IN \A k \in DOMAIN parts :
                parts[k].thought =>
                  /\ \E i \in DOMAIN NewEvents :
                        /\ NewEvents[i].type = "thought"
                        /\ NewEvents[i].value.text = parts[k].text
                  /\ \A i \in DOMAIN NewEvents :
                        IsContent(NewEvents[i])
                        => ~ContainsText(NewEvents[i].value, parts[k].text)
      ]_vars

\* The step pulls a retry marker from the transport.
RetryPulled ==
    /\ pc = "iter"
    /\ Len(stream') = Len(stream) + 1
    /\ stream'[Len(stream')] = RetryItem

\* The step yields one Retry event, goes on with the stream and leaves the
\* turn state alone.
RetryEffect ==
    /\ events' = Append(events, RetryEvent)
    /\ pc' = "iter"
    /\ pendingToolCalls' = pendingToolCalls
    /\ pendingCitations' = pendingCitations
    /\ finishReason' = finishReason

\* C32 as stated: every retry marker yields exactly one Retry event, is
\* non-terminal and changes neither the pending tool calls, nor the pending
\* citations, nor the finish reason.
C32_EveryRetryMarkerYieldsRetry == [][ RetryPulled => RetryEffect ]_vars

\* C32: a retry marker pulled while the signal is not raised yields exactly one
\* Retry event, is non-terminal and changes neither the pending tool calls, nor
\* the pending citations, nor the finish reason.
C32_RetryIsNonTerminal == [][ (RetryPulled /\ ~aborted) => RetryEffect ]_vars

\* A retry marker after a chunk that left tool calls and citations pending.
C32_Witness ==
    /\ ~aborted
    /\ pc = "iter"
    /\ Len(stream) = 2
    /\ stream[2] = RetryItem
    /\ events[Len(events)] = RetryEvent
    /\ pendingToolCalls # <<>>
    /\ pendingCitations # {}

AbortiveTypes == {"error", "user_cancelled", "invalid_stream"}

\* C38: an Error, UserCancelled or InvalidStream event is the last event of
\* its run: after it the run emits nothing more and consumes no further chunk,
\* and at most one of the three occurs per run.
C38_AbortiveEventIsLast ==
    /\ [](\A i \in DOMAIN events :
            events[i].type \in AbortiveTypes => (i = Len(events) /\ pc = "done"))
    /\ [][ (events # <<>> /\ events[Len(events)].type \in AbortiveTypes)
           => (events' = events /\ stream' = stream /\ pc' = pc) ]_vars

\* A run ended by an Error event after events of earlier chunks.
C38_Witness ==
    /\ pc = "done"
    /\ Len(events) >= 2
    /\ events[Len(events)].type = "error"
    /\ stream[Len(stream)].type = "throw"

-----------------------------------------------------------------------------
(* Properties of several runs on one LiteTurn (SpecRuns)                   *)

\* C34: no turn state is retained across run calls: a run that follows another
\* on the same LiteTurn starts with an empty pending tool-call list, an empty
\* pending citation set and no finish reason.
C34_RunStartsAfresh ==
    (pc = "opening" /\ sendCalls > 1)
    => /\ pendingToolCalls = <<>>
       /\ pendingCitations = {}
       /\ finishReason = Undefined

-----------------------------------------------------------------------------
(* Properties of validatePathWithinWorkspace (SpecPath)                    *)

Called == verdict # NoVerdict

\* The canonical form of a path: absolute in the working directory, '.' and '..'
\* resolved; as segments.
CanonicalSegs(path) == NormalizeSegs(ResolveSegs(<<path>>, cwd), <<>>)

NoBackslash(path) == \A i \in DOMAIN path : path[i] # Backslash

\* C7: the validator answers valid exactly when the canonical candidate is the
\* canonical root or nested under it, for every root, the file-system root
\* included.  Stated for candidates written with forward slashes only.
C7_ValidIffNested ==
    (Called /\ NoBackslash(filePath))
    => (verdict.valid <=> Under(CanonicalSegs(workspaceDir), CanonicalSegs(filePath)))

\* The components of a candidate when both '/' and '\' separate components,
\* resolved from the working directory.
BothSeparatorSegs(path) ==
    NormalizeSegs(ResolveSegs(<<ReplaceBackslashes(path)>>, cwd), <<>>)

HasDotDot(path) == <<".", ".">> \in Range(Segments(ReplaceBackslashes(path)))

\* C8: a candidate whose components climb above the workspace root via '..' is
\* invalid, whether written with forward slashes, backslashes or both.
C8_TraversalIsInvalid ==
    ( /\ Called
      /\ HasDotDot(filePath)
      /\ ~Under(CanonicalSegs(workspaceDir), BothSeparatorSegs(filePath)) )
    => ~verdict.valid

\* C9: a relative candidate gets the verdict of the absolute path obtained by
\* resolving it against the workspace root, whatever the working directory.
C9_RelativeSameAsAbsolute ==
    (Called /\ ~isAbsolute(filePath))
    => verdict.valid =
         validatePathWithinWorkspace(resolve(<<workspaceDir, filePath>>, cwd),
                                     workspaceDir, cwd).valid

-----------------------------------------------------------------------------
(* Properties of the tools and the registry (SpecTools)                    *)

InWorkspace(pathString) == Under(Segments(ToolWorkspace), Segments(pathString))

\* The path argument or pattern of a call, otherwise well-formed, resolves
\* outside the workspace.
ArgumentEscapes(call) ==
    IF call.tool = "read_file"
    THEN /\ call.params.file_path.isString
         /\ call.params.encoding \in Encodings \cup {""}
         /\ ~InWorkspace(resolve(<<ToolWorkspace, call.params.file_path.str>>, cwd))
    ELSE IF call.tool = "list_directory"
    THEN /\ call.params.path.isString
         /\ ~InWorkspace(resolve(<<ToolWorkspace, call.params.path.str>>, cwd))
    ELSE IF call.tool = "glob"
    THEN /\ call.params.pattern.isString
         /\ ~IsBlank(call.params.pattern.str)
         /\ ~Under(Segments(ToolWorkspace),
                   GlobStart(call.params.pattern.str, ToolWorkspace).dir)
    ELSE IF call.tool = "grep"
    THEN /\ call.params.pattern = Str(GoodRegex)
         /\ ~Under(Segments(ToolWorkspace),
                   GlobStart(GrepFilePatternOf(call.params), ToolWorkspace).dir)
    ELSE FALSE

BoundaryViolation(result) ==
    ~result.success /\ result.error \in {"FILE_OUTSIDE_WORKSPACE", "FileOutsideWorkspaceError"}

\* C6: no tool reads a path outside the workspace root, and a call whose path
\* argument or pattern resolves outside the workspace fails with a
\* workspace-boundary violation and reads nothing.
C6_NoReadOutsideWorkspace ==
    lastCall # NoCall
    => /\ \A p \in lastCall.reads : InWorkspace(p)
       /\ ArgumentEscapes(lastCall)
          => (lastCall.reads = {} /\ BoundaryViolation(lastCall.result))

\* The tools whose own code tests signal.aborted.
SignalObservers == {"read_file", "list_directory", "grep"}

\* C11: a tool that observes the cancellation signal raised does not return a
\* successful result built from what it scanned so far; its result is a
\* failure (success = false).
C11_CancelledToolFails ==
    (lastCall # NoCall /\ lastCall.aborted /\ lastCall.tool \in SignalObservers)
    => ~lastCall.result.success

\* The matches that exist for a glob or grep call: the files the file pattern
\* matches, and for grep the matching lines in them.
RECURSIVE SumHits(_)
SumHits(files) ==
    IF files = {} THEN 0
    ELSE LET f == CHOOSE x \in files : TRUE
         IN CountTrue(FileLines(f)) + SumHits(files \ {f})

ExistingMatches(call) ==
    IF call.tool = "glob"
    THEN Cardinality(GlobFiles(call.params.pattern.str, ToolWorkspace))
    ELSE SumHits(GlobFiles(GrepFilePatternOf(call.params), ToolWorkspace))

ReturnedCount(call) ==
    IF call.tool = "glob" THEN Len(call.result.meta.matches)
    ELSE call.result.meta.matchCount

\* A glob or grep call with a positive maxResults that ran to its end (the
\* signal not raised) and returned a result.
CappedScan(call) ==
    /\ call # NoCall
    /\ call.tool \in {"glob", "grep"}
    /\ call.result.success
    /\ ~call.aborted
    /\ call.params.maxResults > 0

HasTruncatedFlag(meta) ==
    "truncated" \in DOMAIN meta /\ meta.truncated = TRUE

\* C37: a result is flagged truncated only when it is a capped result: for glob
\* and grep, truncated = true implies that at least one existing match was left
\* out of what was returned.
C37_TruncatedOnlyWhenCapped ==
    ( /\ lastCall # NoCall
      /\ lastCall.tool \in {"glob", "grep"}
      /\ lastCall.result.success
      /\ HasTruncatedFlag(lastCall.result.meta) )
    => ReturnedCount(lastCall) < ExistingMatches(lastCall)

\* What a recursive listing of the call's directory holds when no depth stops it.
FullListing(call) ==
    listRecursive(Segments(resolve(<<ToolWorkspace, call.params.path.str>>, cwd)),
                  call.params.showHidden, Cardinality(FsDirs), 0, FALSE).entries

\* The call returned a successful result that is incomplete because a cap was
\* hit: maxResults for glob and grep, the recursion depth for list_directory.
\* (read_file returns the whole content: it has no cap.)
CapHit(call) ==
    /\ call # NoCall
    /\ call.result.success
    /\ ~call.aborted
    /\ \/ CappedScan(call) /\ ReturnedCount(call) < ExistingMatches(call)
       \/ /\ call.tool = "list_directory"
          /\ call.params.recursive
          /\ call.result.meta.entries # FullListing(call)

\* C13: a successful result that is incomplete because a cap was hit carries
\* an explicit truncation flag, set to true, in its metadata.
C13_CapHitIsFlagged ==
    CapHit(lastCall) => HasTruncatedFlag(lastCall.result.meta)

\* The kind of a failure as its reason tells it.
FailureKind(result) ==
    IF BoundaryViolation(result) THEN "boundary"
    ELSE IF result.error = "Operation cancelled" THEN "cancelled"
    ELSE "failure"

\* C14: when a registered tool fails (missing file or directory, not a
\* directory, malformed pattern, bad argument, path outside the workspace), the
\* failure is a returned ToolResult with success = false, not a thrown error,
\* and a boundary violation is told apart by its reason.
C14_FailureIsReturnedResult ==
    (lastCall # NoCall /\ lastCall.tool # Undefined /\ ~lastCall.result.success)
    => /\ lastCall.result.outcome = "returned"
       /\ ArgumentEscapes(lastCall) => FailureKind(lastCall.result) = "boundary"

\* C10: executeTool with a name that is not registered returns a failure result
\* (success = false) instead of throwing.
C10_UnknownToolReturnsFailure ==
    (lastCall # NoCall /\ lastCall.name \notin DOMAIN tools)
    => (lastCall.result.outcome = "returned" /\ ~lastCall.result.success)

\* The names a tool can be registered under.
ToolNames == DOMAIN DefaultTools \cup {tool.name : tool \in AddableTools}

\* The tool a name stands for after the addTool calls made so far: that of the
\* last call for the name, else the default tool of the name, if any.
LastRegistered(name) ==
    IF name \in DOMAIN lastAdded THEN lastAdded[name]
    ELSE IF name \in DOMAIN DefaultTools THEN DefaultTools[name]
    ELSE Undefined

\* C24: addTool adds or replaces by name: after any sequence of addTool calls
\* getTool(n) is the tool of the last call for the name n, and the tools under
\* the names no call was made for are the ones that were there.
C24_LastAddToolWins ==
    /\ \A name \in ToolNames : getTool(name) = LastRegistered(name)
    /\ DOMAIN tools \subseteq ToolNames

\* A default tool was replaced and a tool was added under a new name.
C24_Witness ==
    /\ "grep" \in DOMAIN lastAdded
    /\ getTool("grep") = "read_file"
    /\ "search" \in DOMAIN lastAdded
    /\ getTool("read_file") = "read_file"

\* C25: a freshly constructed registry holds exactly the four read-only tools
\* read_file, glob, grep and list_directory, and toFunctionDeclarations returns
\* one declaration per registered tool, each named like its tool.
C25_FreshRegistryAndDeclarations ==
    LET declarations == toFunctionDeclarations(tools)
    IN /\ Len(declarations) = Cardinality(DOMAIN tools)
       /\ DOMAIN lastAdded = {} =>
             /\ DOMAIN tools = {"read_file", "glob", "grep", "list_directory"}
             /\ \A name \in DOMAIN tools :
                   Cardinality({i \in DOMAIN declarations :
                                  declarations[i].name = name}) = 1

\* A fresh registry, its four declarations, and a tool of it called.
C25_Witness ==
    /\ DOMAIN lastAdded = {}
    /\ Len(toFunctionDeclarations(tools)) = 4
    /\ lastCall # NoCall

-----------------------------------------------------------------------------
(* Properties of LiteChat and GeminiLite (SpecSession)                     *)

\* The step makes a provider call: sendMessageStream has run.
SendStep == Len(requests') = Len(requests) + 1

\* The user entry of the contents a provider call was made with.
SentEntry(contents) == contents[Len(contents)]

\* C16: sendMessageStream appends the outgoing user message to the held
\* history, so that after the send the message is the last entry of the history.
C16_SendAppendsToHistory ==
    [][ SendStep =>
          /\ Len(history') = Len(history) + 1
          /\ history'[Len(history')] = SentEntry(requests'[Len(requests')])
      ]_vars

\* The step is a call of the named operation on the session.
CallStep(ops) == lastOp = NoOp /\ lastOp'.op \in ops

C18_InvalidStreamIsDistinguished ==
    (analysis.failure \in {"truncated", "invalid"} /\ ~analysis.cancelled)
    => analysis.event = "invalid_stream"

\* C39: in every state of a session closed = true implies that the session
\* holds no chat and that the history is cleared, however close interleaves
\* with analyses in flight and with later calls; a closed session never
\* creates a chat.
C39_ClosedHoldsNoChat ==
    /\ [](closed => (~chat /\ history = <<>>))
    /\ [][ closed => (chat' = chat /\ chatsCreated' = chatsCreated) ]_vars

\* The session was closed while an analysis was in flight, and a method was
\* called on it afterwards.
C39_Witness ==
    /\ closed
    /\ phase # "idle"
    /\ chatsCreated = 1
    /\ lastOp.detail = "ClosedInstanceError"

\* The Content events among evs, their texts concatenated.
RECURSIVE ContentReceived(_)
ContentReceived(evs) ==
    IF evs = <<>> THEN <<>>
    ELSE (IF Head(evs).type = "content" THEN Head(evs).value ELSE <<>>)
         \o ContentReceived(Tail(evs))

\* C40: an analysis whose turn ended with InvalidStream returned a result, whose
\* response is the concatenation of the Content events received before and
\* whose token usage is zero; one whose turn ended with Error threw an Error and
\* one whose turn ended with UserCancelled threw TimeoutError.
C40_InvalidStreamReturnsWhatCame ==
    /\ analysis.event = "invalid_stream" =>
          /\ analysis.outcome = "returned"
          /\ analysisResult.response = ContentReceived(received)
          /\ analysisResult.tokensUsed = ZeroTokens
    /\ analysis.event = "error" =>
          analysis.outcome = "Error" /\ analysisResult = NoResult
    /\ analysis.event = "user_cancelled" =>
          analysis.outcome = "TimeoutError" /\ analysisResult = NoResult

\* The same with the token usage left out: holds.
C40_ResponseIsWhatCame ==
    /\ analysis.event = "invalid_stream" =>
          /\ analysis.outcome = "returned"
          /\ analysisResult.response = ContentReceived(received)
    /\ analysis.event = "error" =>
          analysis.outcome = "Error" /\ analysisResult = NoResult
    /\ analysis.event = "user_cancelled" =>
          analysis.outcome = "TimeoutError" /\ analysisResult = NoResult

\* C35: when the provider call fails with an error that carries a numeric
\* status, at the opening of the stream or during its iteration, the terminal
\* Error event of the turn carries that status.
C35_ErrorKeepsStatus ==
    \A failure \in ProviderFailures :
       (failure.status # NoStatus /\ analysis.failure = failure.kind
        /\ ~analysis.cancelled)
       => (analysis.event = "error" /\ analysis.status = failure.status)

\* The other half of C33, for the session: a call of analyze or of a preset
\* method that starts an analysis makes exactly one provider call, and no later
\* step of the analysis (a tool execution included) makes another.
AnalyzeSendsOnce ==
    [][ /\ CallStep(Methods) /\ lastOp'.outcome = "started"
          => Len(requests') = Len(requests) + 1
        /\ ~(CallStep(Methods) /\ lastOp'.outcome = "started")
          => requests' = requests ]_vars

\* C21: when the timer of analyze expires while the turn is running, analyze
\* ends with a TimeoutError, never with a normal result.
C21_TimeoutEndsInTimeoutError ==
    (analysis # NoAnalysis /\ analysis.cancelled) => analysis.outcome = "TimeoutError"

\* C19: close is idempotent: a close leaves the session closed, the chat
\* released and the history cleared; a close of a closed session returns
\* without error, changes nothing and clears nothing again.
C19_CloseIdempotent ==
    [][ CallStep({"close"})
        => /\ lastOp'.outcome = "returned"
           /\ closed' /\ ~chat' /\ history' = <<>>
           /\ closed => UNCHANGED <<closed, chat, history, cleanups, chatsCreated,
                                     requests, toolRuns>>
      ]_vars

C19_Witness ==
    /\ lastOp = Op("close", "returned", "already closed")
    /\ cleanups = 1
    /\ requests # <<>>

\* C20: after close, a call of analyze, reviewPullRequest, explainCode,
\* analyzeCIFailure or summarizeCodebase throws ClosedInstanceError, and creates
\* no chat, makes no provider call and runs no tool.
C20_ClosedInstanceRejects ==
    [][ (CallStep(Methods) /\ closed)
        => /\ lastOp' = Op(lastOp'.op, "threw", "ClosedInstanceError")
           /\ UNCHANGED <<chat, chatsCreated, requests, toolRuns, phase>>
      ]_vars

C20_Witness ==
    /\ closed
    /\ lastOp = Op("summarizeCodebase", "threw", "ClosedInstanceError")
    /\ chatsCreated = 0

-----------------------------------------------------------------------------
(* Properties of GeminiLite under several callers (SpecCallers)            *)

\* C22: at any time at most one run of LiteTurn is in flight against the chat
\* of the session, however the analyze and preset calls interleave.
C22_OneRunPerChat == chatsCreated <= 1 /\ RunsInFlight <= 1

\* C36: a ToolResult is produced exactly once per ToolCallRequest: for the
\* request, analyze calls executeTool once with its name, before it pulls the
\* next event, and the call yields a ToolResult.
C36_OneToolResultPerRequest ==
    lastExecution # NoExecution
    => /\ lastExecution.name \in RequestedNames
       /\ lastExecution.outcome = "returned"

\* C23: every tool execution of the session runs against the workspace root
\* the session was created with.
C23_OneWorkspaceRoot == toolRoots \subseteq {SessionConfig.workspaceDir}

=============================================================================
